---- MODULE Spec2Model ----
(***************************************************************************)
(* Model of src/apple/barrier.c: the heavy memory barrier for Apple        *)
(* systems.  flush_process_write_buffers() enumerates the threads of the   *)
(* task, forces a fence on each one through a register query, releases     *)
(* each thread port and finally the thread list.  Every kernel call is one *)
(* atomic step of the invoking thread; the kernel's answer (KERN_SUCCESS   *)
(* or an error) is chosen nondeterministically.                            *)
(***************************************************************************)
EXTENDS Integers, Sequences, FiniteSets

VARIABLES
    arch,          \* build architecture: "x86_64", "aarch64" or "other"
    os_available,  \* __builtin_available(macOS 10.14, iOS 12, * ) on this OS
    threads,       \* kernel: the task's thread list, in creation order
    urefs,         \* kernel: per thread port, references held by the task
    vm_lists,      \* kernel: thread-list arrays allocated and not yet freed
    calls,         \* per thread: invocations it may still start
    pc,            \* per thread: position inside flush_process_write_buffers
    thread_acts,   \* local: the enumerated thread ports
    thread_count,  \* local: number of enumerated thread ports
    i,             \* local: loop index (0-based, as in the source)
    syscall_succ,  \* local: result of the fence query of this iteration
    ret,           \* <<>> while running, <<status>> once returned
    supported,     \* per thread: <<result>> of its latest is_supported() call
    urefs0,        \* per thread: urefs as they were when its invocation began
    lists0,        \* per thread: vm_lists as it was when its invocation began
    log            \* per invocation: the kernel calls issued so far, in order

vars == <<arch, os_available, threads, urefs, vm_lists, calls, pc, thread_acts,
          thread_count, i, syscall_succ, ret, supported, urefs0, lists0, log>>

kernel == <<threads, urefs, vm_lists>>
build == <<arch, os_available>>
entry == <<urefs0, lists0>>

\* Bounds of the model.
MaxThreads == 3
MaxCalls == 3

ThreadIds == 1 .. MaxThreads
Archs == {"x86_64", "aarch64", "other"}

\* kern_return_t: KERN_SUCCESS and one representative error code.
KERN_SUCCESS == "KERN_SUCCESS"
KERN_FAILURE == "KERN_FAILURE"
KernReturns == {KERN_SUCCESS, KERN_FAILURE}

\* Status codes of flush_process_write_buffers.
Success == 0
EnumerationFailed == -1
ArchitectureUnsupported == -2
PerThreadFenceFailed == -3
HandleReleaseFailed == -4
ListDeallocationFailed == -5

\* Faulty variant of is_supported: the ARM case is missing.
is_supported_x86Only(a) == IF a = "x86_64" THEN 1 ELSE 0

\* is_supported(): a compile-time function of the architecture.
is_supported(a) == IF a = "x86_64" \/ a = "aarch64" THEN 1 ELSE 0

Range(s) == {s[k] : k \in 1 .. Len(s)}

\* One record of the log: the kernel call, the loop index it was issued at
\* (-1 outside the loop), the thread port it names (0 if none), the
\* thread-state flavor (thread_get_state only) and the kernel's answer.
Rec(call, idx, port, flavor, kr) ==
    [call |-> call, i |-> idx, port |-> port, flavor |-> flavor, kr |-> kr]

Logged(p, r) == log' = [log EXCEPT ![p] = Append(@, r)]

\* Faulty variant of LoopTest: the bound is off by one, so the last
\* enumerated thread is never processed.
LoopTest_OffByOne(n, count) == IF n + 1 < count THEN "fence" ELSE "vm_deallocate"

\* The loop test of line 42: the next position for index n.
LoopTest(n, count) == IF n < count THEN "fence" ELSE "vm_deallocate"

\* Faulty variant of ASSERT_SUCCESS: the kernel's answer is not tested.
ASSERT_SUCCESS_Ignored(p, kr, ret_on_err, next) ==
    /\ pc' = [pc EXCEPT ![p] = next]
    /\ UNCHANGED ret

\* Faulty variant of ASSERT_SUCCESS: a failed call is issued again instead
\* of ending the invocation.
ASSERT_SUCCESS_Retry(p, kr, ret_on_err, next) ==
    IF kr # KERN_SUCCESS
    THEN UNCHANGED <<pc, ret>>
    ELSE /\ pc' = [pc EXCEPT ![p] = next]
         /\ UNCHANGED ret

\* Faulty variant of ASSERT_SUCCESS: every failure is reported with the
\* status of the enumeration.
ASSERT_SUCCESS_SameStatus(p, kr, ret_on_err, next) ==
    IF kr # KERN_SUCCESS
    THEN /\ pc' = [pc EXCEPT ![p] = "done"]
         /\ ret' = [ret EXCEPT ![p] = <<EnumerationFailed>>]
    ELSE /\ pc' = [pc EXCEPT ![p] = next]
         /\ UNCHANGED ret

\* ASSERT_SUCCESS(expr, ret_on_err): return ret_on_err unless expr is
\* KERN_SUCCESS, otherwise fall through to position next.
ASSERT_SUCCESS(p, kr, ret_on_err, next) ==
    IF kr # KERN_SUCCESS
    THEN /\ pc' = [pc EXCEPT ![p] = "done"]
         /\ ret' = [ret EXCEPT ![p] = <<ret_on_err>>]
    ELSE /\ pc' = [pc EXCEPT ![p] = next]
         /\ UNCHANGED ret

\* Faulty variant of CurrentPort: the loop index is not used.
CurrentPort_First(p) == thread_acts[p][1]

\* The port operated on in the current iteration: thread_acts[i].
CurrentPort(p) == thread_acts[p][i[p] + 1]

\* Entry into flush_process_write_buffers by thread p.
Call(p) ==
    /\ pc[p] \in {"idle", "done"}
    /\ p \in Range(threads)
    /\ calls[p] > 0
    /\ calls' = [calls EXCEPT ![p] = @ - 1]
    /\ pc' = [pc EXCEPT ![p] = "task_threads"]
    /\ thread_acts' = [thread_acts EXCEPT ![p] = <<>>]
    /\ thread_count' = [thread_count EXCEPT ![p] = 0]
    /\ i' = [i EXCEPT ![p] = 0]
    /\ syscall_succ' = [syscall_succ EXCEPT ![p] = KERN_SUCCESS]
    /\ ret' = [ret EXCEPT ![p] = <<>>]
    /\ log' = [log EXCEPT ![p] = <<>>]
    /\ urefs0' = [urefs0 EXCEPT ![p] = urefs]
    /\ lists0' = [lists0 EXCEPT ![p] = vm_lists]
    /\ UNCHANGED <<build, supported, kernel>>

\* Faulty variant of TaskThreads: a rejected enumeration is reported with
\* the status of another step.
TaskThreads_WrongStatus(p) ==
    /\ pc[p] = "task_threads"
    /\ \E kr \in KernReturns :
        /\ Logged(p, Rec("task_threads", -1, 0, "", kr))
        /\ IF kr = KERN_SUCCESS
           THEN /\ thread_acts' = [thread_acts EXCEPT ![p] = threads]
                /\ thread_count' = [thread_count EXCEPT ![p] = Len(threads)]
                /\ urefs' = [t \in ThreadIds |->
                               IF t \in Range(threads) THEN urefs[t] + 1 ELSE urefs[t]]
                /\ vm_lists' = vm_lists + 1
           ELSE UNCHANGED <<thread_acts, thread_count, urefs, vm_lists>>
        /\ ASSERT_SUCCESS(p, kr, PerThreadFenceFailed,
                          LoopTest(0, IF kr = KERN_SUCCESS THEN Len(threads) ELSE 0))
    /\ i' = [i EXCEPT ![p] = 0]
    /\ UNCHANGED <<build, supported, entry, threads, calls, syscall_succ>>

\* Line 39: task_threads(mach_task_self(), &thread_acts, &thread_count).
\* On success the kernel hands out one reference per thread port and a
\* freshly allocated array; on failure it hands out nothing.
TaskThreads(p) ==
    /\ pc[p] = "task_threads"
    /\ \E kr \in KernReturns :
        /\ Logged(p, Rec("task_threads", -1, 0, "", kr))
        /\ IF kr = KERN_SUCCESS
           THEN /\ thread_acts' = [thread_acts EXCEPT ![p] = threads]
                /\ thread_count' = [thread_count EXCEPT ![p] = Len(threads)]
                /\ urefs' = [t \in ThreadIds |->
                               IF t \in Range(threads) THEN urefs[t] + 1 ELSE urefs[t]]
                /\ vm_lists' = vm_lists + 1
           ELSE UNCHANGED <<thread_acts, thread_count, urefs, vm_lists>>
        /\ ASSERT_SUCCESS(p, kr, EnumerationFailed,
                          LoopTest(0, IF kr = KERN_SUCCESS THEN Len(threads) ELSE 0))
    /\ i' = [i EXCEPT ![p] = 0]
    /\ UNCHANGED <<build, supported, entry, threads, calls, syscall_succ>>

\* Faulty variant of FencePreferred: a failed query does not abort.
FencePreferred_Unchecked(p) ==
    /\ pc[p] = "fence"
    /\ os_available
    /\ \E kr \in KernReturns :
        /\ Logged(p, Rec("thread_get_register_pointer_values", i[p], CurrentPort(p), "", kr))
        /\ syscall_succ' = [syscall_succ EXCEPT ![p] = kr]
        /\ pc' = [pc EXCEPT ![p] = "port_deallocate"]
    /\ UNCHANGED <<build, supported, entry, kernel, calls, thread_acts, thread_count, i, ret>>

\* Lines 45-49 and 68: the preferred query, then ASSERT_SUCCESS(syscall_succ, -3).
FencePreferred(p) ==
    /\ pc[p] = "fence"
    /\ os_available
    /\ \E kr \in KernReturns :
        /\ Logged(p, Rec("thread_get_register_pointer_values", i[p], CurrentPort(p), "", kr))
        /\ syscall_succ' = [syscall_succ EXCEPT ![p] = kr]
        /\ ASSERT_SUCCESS(p, kr, PerThreadFenceFailed, "port_deallocate")
    /\ UNCHANGED <<build, supported, entry, kernel, calls, thread_acts, thread_count, i>>

\* Faulty variant of Flavor: the x86 flavor is requested on every build.
Flavor_AlwaysX86(a) == "x86_THREAD_STATE64"

\* The thread-state flavor compiled into the fallback path (lines 52-59).
Flavor(a) == IF a = "x86_64" THEN "x86_THREAD_STATE64" ELSE "ARM_THREAD_STATE64"

\* Variant of FenceFallback that releases the current handle before it
\* returns -3 on a failed query.
FenceFallback_ReleaseOnFailure(p) ==
    /\ pc[p] = "fence"
    /\ ~os_available
    /\ arch \in {"x86_64", "aarch64"}
    /\ \E kr \in KernReturns :
        /\ syscall_succ' = [syscall_succ EXCEPT ![p] = kr]
        /\ IF kr = KERN_SUCCESS
           THEN /\ Logged(p, Rec("thread_get_state", i[p], CurrentPort(p), Flavor(arch), kr))
                /\ UNCHANGED urefs
           ELSE /\ log' = [log EXCEPT ![p] =
                             @ \o <<Rec("thread_get_state", i[p], CurrentPort(p),
                                        Flavor(arch), kr),
                                    Rec("mach_port_deallocate", i[p], CurrentPort(p),
                                        "", KERN_SUCCESS)>>]
                /\ urefs' = [urefs EXCEPT ![CurrentPort(p)] = @ - 1]
        /\ ASSERT_SUCCESS(p, kr, PerThreadFenceFailed, "port_deallocate")
    /\ UNCHANGED <<build, supported, entry, threads, vm_lists, calls, thread_acts,
                   thread_count, i>>

\* Lines 50-59 and 68: the fallback query on older OS versions.
FenceFallback(p) ==
    /\ pc[p] = "fence"
    /\ ~os_available
    /\ arch \in {"x86_64", "aarch64"}
    /\ \E kr \in KernReturns :
        /\ Logged(p, Rec("thread_get_state", i[p], CurrentPort(p), Flavor(arch), kr))
        /\ syscall_succ' = [syscall_succ EXCEPT ![p] = kr]
        /\ ASSERT_SUCCESS(p, kr, PerThreadFenceFailed, "port_deallocate")
    /\ UNCHANGED <<build, supported, entry, kernel, calls, thread_acts, thread_count, i>>

\* Lines 60-64: neither fallback is compiled in; return -2.
FenceUnsupported(p) ==
    /\ pc[p] = "fence"
    /\ ~os_available
    /\ arch \notin {"x86_64", "aarch64"}
    /\ pc' = [pc EXCEPT ![p] = "done"]
    /\ ret' = [ret EXCEPT ![p] = <<ArchitectureUnsupported>>]
    /\ UNCHANGED <<build, supported, entry, kernel, calls, thread_acts, thread_count, i, syscall_succ, log>>

\* Faulty variant of PortDeallocate: a failed release does not abort; the
\* loop goes on to the next thread.
PortDeallocate_Unchecked(p) ==
    /\ pc[p] = "port_deallocate"
    /\ \E kr \in KernReturns :
        /\ kr = KERN_SUCCESS => urefs[CurrentPort(p)] > 0
        /\ Logged(p, Rec("mach_port_deallocate", i[p], CurrentPort(p), "", kr))
        /\ urefs' = IF kr = KERN_SUCCESS
                    THEN [urefs EXCEPT ![CurrentPort(p)] = @ - 1] ELSE urefs
        /\ i' = [i EXCEPT ![p] = @ + 1]
        /\ pc' = [pc EXCEPT ![p] = LoopTest(i[p] + 1, thread_count[p])]
    /\ UNCHANGED <<build, supported, entry, threads, vm_lists, calls, thread_acts, thread_count,
                   syscall_succ, ret>>

\* Faulty variant of PortDeallocate: the handle is released twice.
PortDeallocate_Twice(p) ==
    /\ pc[p] = "port_deallocate"
    /\ \E kr \in KernReturns :
        /\ kr = KERN_SUCCESS => urefs[CurrentPort(p)] > 0
        /\ log' = [log EXCEPT ![p] =
                     @ \o <<Rec("mach_port_deallocate", i[p], CurrentPort(p), "", kr),
                            Rec("mach_port_deallocate", i[p], CurrentPort(p), "", kr)>>]
        /\ IF kr = KERN_SUCCESS
           THEN /\ urefs' = [urefs EXCEPT ![CurrentPort(p)] = IF @ > 1 THEN @ - 2 ELSE 0]
                /\ i' = [i EXCEPT ![p] = @ + 1]
           ELSE UNCHANGED <<urefs, i>>
        /\ ASSERT_SUCCESS(p, kr, HandleReleaseFailed, LoopTest(i[p] + 1, thread_count[p]))
    /\ UNCHANGED <<build, supported, entry, threads, vm_lists, calls, thread_acts,
                   thread_count, syscall_succ>>

\* Line 69: mach_port_deallocate(mach_task_self(), thread_acts[i]), then ++i
\* and the loop test.  The kernel can only succeed on a port the task holds
\* a reference to.
PortDeallocate(p) ==
    /\ pc[p] = "port_deallocate"
    /\ \E kr \in KernReturns :
        /\ kr = KERN_SUCCESS => urefs[CurrentPort(p)] > 0
        /\ Logged(p, Rec("mach_port_deallocate", i[p], CurrentPort(p), "", kr))
        /\ IF kr = KERN_SUCCESS
           THEN /\ urefs' = [urefs EXCEPT ![CurrentPort(p)] = @ - 1]
                /\ i' = [i EXCEPT ![p] = @ + 1]
           ELSE UNCHANGED <<urefs, i>>
        /\ ASSERT_SUCCESS(p, kr, HandleReleaseFailed, LoopTest(i[p] + 1, thread_count[p]))
    /\ UNCHANGED <<build, supported, entry, threads, vm_lists, calls, thread_acts, thread_count, syscall_succ>>

\* Faulty variant of VmDeallocate: the list is freed before the loop is
\* known to be over, and the answer is reported as success either way.
VmDeallocate_Unchecked(p) ==
    /\ pc[p] = "vm_deallocate"
    /\ \E kr \in KernReturns :
        /\ kr = KERN_SUCCESS => vm_lists > 0
        /\ Logged(p, Rec("vm_deallocate", -1, 0, "", kr))
        /\ vm_lists' = IF kr = KERN_SUCCESS THEN vm_lists - 1 ELSE vm_lists
        /\ pc' = [pc EXCEPT ![p] = "return"]
    /\ UNCHANGED <<build, supported, entry, threads, urefs, calls, thread_acts, thread_count, i,
                   syscall_succ, ret>>

\* Line 73: vm_deallocate of the thread list, under ASSERT_SUCCESS(..., -5).
VmDeallocate(p) ==
    /\ pc[p] = "vm_deallocate"
    /\ \E kr \in KernReturns :
        /\ kr = KERN_SUCCESS => vm_lists > 0
        /\ Logged(p, Rec("vm_deallocate", -1, 0, "", kr))
        /\ vm_lists' = IF kr = KERN_SUCCESS THEN vm_lists - 1 ELSE vm_lists
        /\ ASSERT_SUCCESS(p, kr, ListDeallocationFailed, "return")
    /\ UNCHANGED <<build, supported, entry, threads, urefs, calls, thread_acts, thread_count, i, syscall_succ>>

\* Faulty variant of ReturnSuccess: the final status is not the success code.
ReturnSuccess_WrongStatus(p) ==
    /\ pc[p] = "return"
    /\ pc' = [pc EXCEPT ![p] = "done"]
    /\ ret' = [ret EXCEPT ![p] = <<ListDeallocationFailed>>]
    /\ UNCHANGED <<build, supported, entry, kernel, calls, thread_acts, thread_count, i,
                   syscall_succ, log>>

\* Line 74: return 0.
ReturnSuccess(p) ==
    /\ pc[p] = "return"
    /\ pc' = [pc EXCEPT ![p] = "done"]
    /\ ret' = [ret EXCEPT ![p] = <<Success>>]
    /\ UNCHANGED <<build, supported, entry, kernel, calls, thread_acts, thread_count, i, syscall_succ, log>>

\* Lines 23-29: a thread that is going to invoke the barrier calls
\* is_supported() first, while it is not inside flush_process_write_buffers.
IsSupported(p) ==
    /\ pc[p] \in {"idle", "done"}
    /\ p \in Range(threads)
    /\ calls[p] > 0
    /\ supported' = [supported EXCEPT ![p] = <<is_supported(arch)>>]
    /\ UNCHANGED <<build, entry, kernel, calls, pc, thread_acts, thread_count, i,
                   syscall_succ, ret, log>>

\* The steps a thread takes between entry and return (lines 39-74).
Running(p) ==
    \/ TaskThreads(p)
    \/ FencePreferred(p)
    \/ FenceFallback(p)
    \/ FenceUnsupported(p)
    \/ PortDeallocate(p)
    \/ VmDeallocate(p)
    \/ ReturnSuccess(p)

\* The process creates a thread; the kernel appends it to the task's list.
ThreadCreate(t) ==
    /\ t \notin Range(threads)
    /\ threads' = Append(threads, t)
    /\ UNCHANGED <<build, supported, entry, urefs, vm_lists, calls, pc, thread_acts, thread_count, i,
                   syscall_succ, ret, log>>

\* Faulty variant of Step: inside the loop the thread list is read again,
\* so threads created after the enumeration join the iteration.
Step_Reenumerating(p) ==
    \/ Call(p)
    \/ TaskThreads(p)
    \/ FencePreferred(p)
    \/ FenceFallback(p)
    \/ FenceUnsupported(p)
    \/ PortDeallocate(p)
    \/ VmDeallocate(p)
    \/ ReturnSuccess(p)
    \/ IsSupported(p)
    \/ /\ pc[p] = "fence"
       /\ thread_acts[p] # threads
       /\ thread_acts' = [thread_acts EXCEPT ![p] = threads]
       /\ thread_count' = [thread_count EXCEPT ![p] = Len(threads)]
       /\ UNCHANGED <<build, supported, entry, kernel, calls, pc, i, syscall_succ,
                      ret, log>>

Step(p) ==
    \/ Call(p)
    \/ TaskThreads(p)
    \/ FencePreferred(p)
    \/ FenceFallback(p)
    \/ FenceUnsupported(p)
    \/ PortDeallocate(p)
    \/ VmDeallocate(p)
    \/ ReturnSuccess(p)
    \/ IsSupported(p)

Next ==
    \/ \E p \in ThreadIds : Step(p)
    \/ \E t \in ThreadIds : ThreadCreate(t)

\* The state shared by both scenarios: nothing is held before the first call.
InitCommon ==
    /\ arch \in Archs
    /\ os_available \in BOOLEAN
    /\ urefs = [t \in ThreadIds |-> 0]
    /\ vm_lists = 0
    /\ pc = [t \in ThreadIds |-> "idle"]
    /\ thread_acts = [t \in ThreadIds |-> <<>>]
    /\ thread_count = [t \in ThreadIds |-> 0]
    /\ i = [t \in ThreadIds |-> 0]
    /\ syscall_succ = [t \in ThreadIds |-> KERN_SUCCESS]
    /\ ret = [t \in ThreadIds |-> <<>>]
    /\ supported = [t \in ThreadIds |-> <<>>]
    /\ urefs0 = [t \in ThreadIds |-> urefs]
    /\ lists0 = [t \in ThreadIds |-> 0]
    /\ log = [t \in ThreadIds |-> <<>>]

\* One thread invokes the barrier up to MaxCalls times in a row while other
\* threads are created.
Init ==
    /\ InitCommon
    /\ threads = <<1>>
    /\ calls = [t \in ThreadIds |-> IF t = 1 THEN MaxCalls ELSE 0]

Spec == Init /\ [][Next]_vars

\* One thread invokes the barrier twice (the second invocation starts from
\* whatever the first one left in the kernel), with a fair scheduler and a
\* kernel that answers every call: a thread inside
\* flush_process_write_buffers eventually takes its next step.
InitLive ==
    /\ InitCommon
    /\ threads = <<1>>
    /\ calls = [t \in ThreadIds |-> IF t = 1 THEN 2 ELSE 0]

SpecLive == InitLive /\ [][Next]_vars /\ \A p \in ThreadIds : WF_vars(Running(p))

\* Two threads of the same process each invoke the barrier once, concurrently.
InitConc ==
    /\ InitCommon
    /\ threads = <<1, 2>>
    /\ calls = [t \in ThreadIds |-> IF t \in {1, 2} THEN 1 ELSE 0]

SpecConc == InitConc /\ [][Next]_vars

(***************************************************************************)
(* Vocabulary of the properties.                                           *)
(***************************************************************************)
Callers == {p \in ThreadIds : Len(log[p]) > 0}
Returned(p) == pc[p] = "done"
IsFence(r) == r.call \in {"thread_get_register_pointer_values", "thread_get_state"}
IsRelease(r) == r.call = "mach_port_deallocate"
Ok(r) == r.kr = KERN_SUCCESS
Enumerated(p) == Len(log[p]) > 0 /\ Ok(log[p][1])
Indices(p) == 0 .. (thread_count[p] - 1)
LogPos(p) == 1 .. Len(log[p])

\* Index k of p's enumeration was fenced / released successfully.
Fenced(p, k) ==
    \E j \in LogPos(p) : IsFence(log[p][j]) /\ log[p][j].i = k /\ Ok(log[p][j])
                           /\ log[p][j].port = thread_acts[p][k + 1]
Released(p, k) ==
    \E j \in LogPos(p) : IsRelease(log[p][j]) /\ log[p][j].i = k /\ Ok(log[p][j])
                           /\ log[p][j].port = thread_acts[p][k + 1]
\* Handles of p's enumeration that p still holds.
Held(p) == {k \in Indices(p) : ~Released(p, k)}
\* p's thread list is allocated and not freed.
ListHeld(p) ==
    /\ Enumerated(p)
    /\ ~\E j \in LogPos(p) : log[p][j].call = "vm_deallocate" /\ Ok(log[p][j])

\* C1: on every exit path, every thread handle task_threads handed to the
\* invocation has been released when the call returns.
C1_AllHandlesReleasedOnReturn ==
    \A p \in ThreadIds : Returned(p) => Held(p) = {}

\* C2: on success every thread of the enumeration snapshot was the target of
\* a fence query that succeeded after the call began and before it returned.
C2_SuccessImpliesAllFenced ==
    \A p \in ThreadIds :
        ret[p] = <<Success>> =>
            /\ Enumerated(p)
            /\ thread_count[p] = Len(thread_acts[p])
            /\ p \in Range(thread_acts[p])
            /\ \A k \in 1 .. Len(thread_acts[p]) :
                 \E j \in 2 .. (Len(log[p]) - 1) :
                    /\ IsFence(log[p][j])
                    /\ log[p][j].port = thread_acts[p][k]
                    /\ Ok(log[p][j])

C2_Witness ==
    \E p \in ThreadIds : ret[p] = <<Success>> /\ thread_count[p] >= 2

\* C3: success is returned only if the enumeration, every fence query, every
\* handle release and the list deallocation all succeeded, none skipped.
C3_SuccessOnlyIfEveryCallSucceeded ==
    \A p \in ThreadIds :
        ret[p] = <<Success>> =>
            /\ \A j \in LogPos(p) : Ok(log[p][j])
            /\ log[p][1].call = "task_threads"
            /\ \A k \in Indices(p) : Fenced(p, k) /\ Released(p, k)
            /\ log[p][Len(log[p])].call = "vm_deallocate"
            /\ Len(log[p]) = 2 * thread_count[p] + 2

C3_Witness ==
    \E p \in ThreadIds :
        /\ ret[p] = <<Success>>
        /\ thread_count[p] = MaxThreads
        /\ \A j \in LogPos(p) : Ok(log[p][j])

\* C4: on an architecture is_supported() rejects, every invocation returns
\* -2 without having acquired a thread list it leaves unreleased and without
\* issuing any fence query.  (Invocations whose enumeration the kernel
\* rejected are left aside: they return -1 before any architecture check.)
C4_UnsupportedArchAlwaysFailsCleanly ==
    \A p \in ThreadIds :
        (is_supported(arch) = 0 /\ Returned(p) /\ Enumerated(p)) =>
            /\ ret[p] = <<ArchitectureUnsupported>>
            /\ ~ListHeld(p)
            /\ \A j \in LogPos(p) : ~IsFence(log[p][j])

\* C5: threads are processed in enumeration order and every fence attempt,
\* whether it succeeded or failed, is followed at once by the release of
\* the same handle.
C5_ReleaseFollowsEveryFenceAttempt ==
    \A p \in ThreadIds :
        Returned(p) =>
            \A j \in LogPos(p) :
                IsFence(log[p][j]) =>
                    /\ j < Len(log[p])
                    /\ IsRelease(log[p][j + 1])
                    /\ log[p][j + 1].i = log[p][j].i
                    /\ log[p][j + 1].port = log[p][j].port

\* C6: a fence query that fails at index k ends the invocation with -3; it
\* is the last kernel call, so no thread at a greater index is queried.
C6_FenceFailureAborts ==
    \A p \in ThreadIds :
        \A j \in LogPos(p) :
            (IsFence(log[p][j]) /\ ~Ok(log[p][j])) =>
                /\ Returned(p)
                /\ ret[p] = <<PerThreadFenceFailed>>
                /\ j = Len(log[p])
                /\ \A m \in LogPos(p) :
                     IsFence(log[p][m]) => log[p][m].i <= log[p][j].i

C6_Witness ==
    \E p \in ThreadIds :
        /\ Len(log[p]) > 0
        /\ IsFence(log[p][Len(log[p])])
        /\ ~Ok(log[p][Len(log[p])])
        /\ log[p][Len(log[p])].i = 1
        /\ thread_count[p] = MaxThreads

\* C7: a rejected enumeration returns -1 at once: task_threads is the only
\* kernel call of the invocation, nothing was handed out, and the step
\* leaves the kernel's resources as they were.
C7_RejectedEnumeration ==
    \A p \in ThreadIds :
        (Len(log[p]) > 0 /\ ~Ok(log[p][1])) =>
            /\ log[p][1].call = "task_threads"
            /\ Len(log[p]) = 1
            /\ Returned(p)
            /\ ret[p] = <<EnumerationFailed>>
            /\ thread_acts[p] = <<>>
            /\ thread_count[p] = 0
            /\ Held(p) = {}
            /\ ~ListHeld(p)

\* C7 (whole claim): the invariant above holds always, and the step on which
\* task_threads is rejected changes nothing in the kernel.
C7_EnumerationRejectedHoldsNothing ==
    /\ []C7_RejectedEnumeration
    /\ [][\A p \in ThreadIds :
            (pc[p] = "task_threads" /\ pc'[p] = "done") => UNCHANGED kernel]_vars

C7_Witness ==
    \E p \in ThreadIds :
        /\ ret[p] = <<EnumerationFailed>>
        /\ Len(log[p]) = 1
        /\ Len(threads) >= 2

\* C8: a release that fails at index k ends the invocation with -4, a
\* status no other outcome produces, although the fence on k succeeded; it
\* is the last kernel call, so no later thread is fenced.
C8_ReleaseFailureAborts ==
    /\ Cardinality({Success, EnumerationFailed, ArchitectureUnsupported,
                    PerThreadFenceFailed, HandleReleaseFailed,
                    ListDeallocationFailed}) = 6
    /\ \A p \in ThreadIds :
        /\ \A j \in LogPos(p) :
            (IsRelease(log[p][j]) /\ ~Ok(log[p][j])) =>
                /\ Returned(p)
                /\ ret[p] = <<HandleReleaseFailed>>
                /\ j = Len(log[p])
                /\ IsFence(log[p][j - 1])
                /\ Ok(log[p][j - 1])
                /\ log[p][j - 1].i = log[p][j].i
                /\ Fenced(p, log[p][j].i)
        /\ ret[p] = <<HandleReleaseFailed>> =>
                /\ IsRelease(log[p][Len(log[p])])
                /\ ~Ok(log[p][Len(log[p])])

C8_Witness ==
    \E p \in ThreadIds :
        /\ ret[p] = <<HandleReleaseFailed>>
        /\ i[p] = 0
        /\ thread_count[p] >= 2
        /\ Fenced(p, 0)

\* C9: the thread list is deallocated only after every enumerated thread
\* was fenced and released successfully, as the last kernel call; the
\* result is -5 if the deallocation fails and 0 otherwise.
C9_ListDeallocatedLast ==
    \A p \in ThreadIds :
        \A j \in LogPos(p) :
            log[p][j].call = "vm_deallocate" =>
                /\ j = Len(log[p])
                /\ j = 2 * thread_count[p] + 2
                /\ \A m \in 1 .. (j - 1) : Ok(log[p][m])
                /\ \A k \in Indices(p) : Fenced(p, k) /\ Released(p, k)
                /\ Returned(p) =>
                     ret[p] = IF Ok(log[p][j]) THEN <<Success>>
                              ELSE <<ListDeallocationFailed>>
                /\ ~Returned(p) => (pc[p] = "return" /\ Ok(log[p][j]))

C9_Witness ==
    \E p \in ThreadIds :
        /\ ret[p] = <<ListDeallocationFailed>>
        /\ thread_count[p] >= 2
        /\ Held(p) = {}

\* C10: two concurrent invocations are independent.  Each releases only
\* references its own enumeration acquired, each at most once; the kernel's
\* counts are exactly the references and lists the invocations still hold;
\* when both have returned success the counts are back to their initial
\* value; and a step of one invocation never changes a local of the other.
Locals(p) == <<pc[p], thread_acts[p], thread_count[p], i[p], syscall_succ[p],
               ret[p], log[p]>>

ReleasesOf(p, t) ==
    Cardinality({j \in LogPos(p) :
                    IsRelease(log[p][j]) /\ Ok(log[p][j]) /\ log[p][j].port = t})
AcquiredOf(p, t) ==
    Cardinality({k \in 1 .. Len(thread_acts[p]) : thread_acts[p][k] = t})
Outstanding(t) ==
    Cardinality({h \in ThreadIds \X (0 .. MaxThreads) :
                    /\ h[2] \in Indices(h[1])
                    /\ thread_acts[h[1]][h[2] + 1] = t
                    /\ ~Released(h[1], h[2])})

C10_OwnHandlesOnly ==
    /\ \A p, t \in ThreadIds : ReleasesOf(p, t) <= AcquiredOf(p, t)
    /\ \A t \in ThreadIds : urefs[t] = Outstanding(t)
    /\ vm_lists = Cardinality({p \in ThreadIds : ListHeld(p)})
    /\ (ret[1] = <<Success>> /\ ret[2] = <<Success>>) =>
            /\ \A t \in ThreadIds : urefs[t] = 0
            /\ vm_lists = 0

\* C10 (whole claim): the accounting above holds in every state, and every
\* step changes the locals of at most one invocation.
C10_ConcurrentInvocationsIndependent ==
    /\ []C10_OwnHandlesOnly
    /\ [][Cardinality({p \in ThreadIds : Locals(p)' # Locals(p)}) <= 1]_vars

C10_Witness ==
    /\ pc[1] = "port_deallocate" /\ i[1] = 1
    /\ pc[2] = "port_deallocate" /\ i[2] = 1
    /\ Released(1, 0) /\ Released(2, 0)
    /\ urefs[thread_acts[1][2]] = 2

\* C11: is_supported() returns 1 exactly on x86_64 and aarch64 and 0 on
\* every other architecture, whatever the OS version and whatever was called
\* before, and the call changes nothing but its result.
C11_ProbeResult ==
    \A p \in ThreadIds :
        supported[p] # <<>> =>
            supported[p] = <<IF arch \in {"x86_64", "aarch64"} THEN 1 ELSE 0>>

C11_ProbeIsPure ==
    /\ []C11_ProbeResult
    /\ [][\A p \in ThreadIds :
            supported'[p] # supported[p]
                => UNCHANGED <<build, kernel, entry, calls, pc, thread_acts,
                               thread_count, i, syscall_succ, ret, log>>]_vars

C11_Witness ==
    \E p \in ThreadIds :
        /\ supported[p] = <<1>>
        /\ arch = "aarch64"
        /\ ~os_available
        /\ ret[p] = <<PerThreadFenceFailed>>
        /\ calls[p] < MaxCalls - 1

\* C12 as claimed: when the caller is the only thread and no kernel call
\* fails, the invocation returns 0 with the caller fenced and released.
C12_SingleThreadSucceeds ==
    \A p \in ThreadIds :
        (Returned(p) /\ thread_acts[p] = <<p>> /\ \A j \in LogPos(p) : Ok(log[p][j])) =>
            /\ ret[p] = <<Success>>
            /\ Fenced(p, 0)
            /\ Released(p, 0)

\* C12 as amended: the same, except on a build with no fence path at all
\* (unsupported architecture and preferred query unavailable), where the
\* invocation returns -2 instead.
C12_SingleThreadSucceedsWhereAFencePathExists ==
    \A p \in ThreadIds :
        (Returned(p) /\ thread_acts[p] = <<p>> /\ \A j \in LogPos(p) : Ok(log[p][j])) =>
            IF os_available \/ is_supported(arch) = 1
            THEN /\ ret[p] = <<Success>>
                 /\ Fenced(p, 0)
                 /\ Released(p, 0)
                 /\ Len(log[p]) = 4
            ELSE ret[p] = <<ArchitectureUnsupported>>

C12_Witness ==
    \E p \in ThreadIds :
        /\ ret[p] = <<Success>>
        /\ thread_acts[p] = <<p>>
        /\ threads = <<p>>
        /\ Fenced(p, 0)

\* C13: the threads an invocation touches are those of its enumeration
\* snapshot, taken once: every fence query and release names a port of the
\* snapshot, the snapshot is the thread list at the moment of enumeration
\* and does not change during the invocation, so a thread created later is
\* reached only by an invocation that enumerates after its creation.
C13_OnlySnapshotTouched ==
    \A p \in ThreadIds :
        /\ \A j \in LogPos(p) :
             (IsFence(log[p][j]) \/ IsRelease(log[p][j])) =>
                 /\ log[p][j].i \in Indices(p)
                 /\ log[p][j].port = thread_acts[p][log[p][j].i + 1]
        /\ thread_count[p] = Len(thread_acts[p])

C13_SnapshotFixesCoverage ==
    /\ []C13_OnlySnapshotTouched
    /\ [][\A p \in ThreadIds :
            /\ (pc[p] = "task_threads" /\ pc'[p] \notin {"task_threads", "done"}) => thread_acts'[p] = threads
            /\ pc[p] \in {"fence", "port_deallocate", "vm_deallocate", "return"} =>
                    thread_acts'[p] = thread_acts[p]]_vars

C13_Witness ==
    \E p \in ThreadIds :
        /\ ret[p] = <<Success>>
        /\ \E t \in Range(threads) :
            /\ t \notin Range(thread_acts[p])
            /\ \A j \in LogPos(p) : log[p][j].port # t

\* C14: after any number of consecutive invocations the process holds no
\* more thread handles and thread lists than before the first one.
C14_NothingAccumulates ==
    (\A p \in ThreadIds : pc[p] \in {"idle", "done"}) =>
        /\ \A t \in ThreadIds : urefs[t] = 0
        /\ vm_lists = 0

\* C15: every fence query is the preferred one when the OS provides it and
\* otherwise thread_get_state with the flavor of the build architecture; an
\* index is queried at most once, and every released index was queried once.
C15_OneFenceQueryPerThread ==
    \A p \in ThreadIds :
        /\ \A j \in LogPos(p) :
            IsFence(log[p][j]) =>
                /\ os_available <=>
                       log[p][j].call = "thread_get_register_pointer_values"
                /\ ~os_available =>
                       /\ log[p][j].call = "thread_get_state"
                       /\ arch = "x86_64" => log[p][j].flavor = "x86_THREAD_STATE64"
                       /\ arch = "aarch64" => log[p][j].flavor = "ARM_THREAD_STATE64"
                       /\ arch \in {"x86_64", "aarch64"}
        /\ \A k \in Indices(p) :
            /\ Cardinality({j \in LogPos(p) : IsFence(log[p][j]) /\ log[p][j].i = k}) <= 1
            /\ (\E j \in LogPos(p) : IsRelease(log[p][j]) /\ log[p][j].i = k) =>
                 Cardinality({j \in LogPos(p) : IsFence(log[p][j]) /\ log[p][j].i = k}) = 1

C15_Witness ==
    \E p \in ThreadIds :
        /\ ~os_available
        /\ arch = "aarch64"
        /\ Len(log[p]) >= 4
        /\ log[p][4].call = "thread_get_state"
        /\ log[p][4].flavor = "ARM_THREAD_STATE64"
        /\ log[p][4].i = 1

\* C16: every invocation terminates.  It issues at most 2N + 2 kernel calls,
\* no call is issued twice and a failed call is the last one (no retry), and
\* at every point inside the invocation its next step is enabled whatever
\* the other threads do (it waits for nothing).
C16_BoundedCalls ==
    \A p \in ThreadIds :
        /\ Len(log[p]) <= 2 * thread_count[p] + 2
        /\ ~Enumerated(p) => Len(log[p]) <= 1
        /\ \A j \in LogPos(p) : ~Ok(log[p][j]) => (j = Len(log[p]) /\ Returned(p))
        /\ \A j, m \in LogPos(p) :
             (log[p][j].call = log[p][m].call /\ log[p][j].i = log[p][m].i) => j = m
        /\ Cardinality({j \in LogPos(p) : IsFence(log[p][j])}) <= thread_count[p]
        /\ Cardinality({j \in LogPos(p) : IsRelease(log[p][j])}) <= thread_count[p]
        /\ pc[p] \notin {"idle", "done"} => ENABLED Running(p)

C16_Terminates ==
    /\ []C16_BoundedCalls
    /\ \A p \in ThreadIds : (pc[p] = "task_threads") ~> (pc[p] = "done")

C16_Witness ==
    \E p \in ThreadIds :
        /\ Returned(p)
        /\ thread_count[p] = MaxThreads
        /\ Len(log[p]) = 2 * MaxThreads + 2

\* C17: the status is one of 0, -1, ..., -5; each failure kind has its own
\* code; the code is that of the one failing step, which is the last kernel
\* call of the invocation, so no later failure can mask it.
LastRec(p) == log[p][Len(log[p])]
AllOk(p) == \A j \in LogPos(p) : Ok(log[p][j])

C17_StatusOfFirstFailure ==
    \A p \in ThreadIds :
        /\ \A j \in LogPos(p) : ~Ok(log[p][j]) => j = Len(log[p])
        /\ Returned(p) =>
            /\ ret[p] \in {<<Success>>, <<EnumerationFailed>>, <<ArchitectureUnsupported>>,
                           <<PerThreadFenceFailed>>, <<HandleReleaseFailed>>,
                           <<ListDeallocationFailed>>}
            /\ ret[p] = <<EnumerationFailed>> <=>
                   (LastRec(p).call = "task_threads" /\ ~Ok(LastRec(p)))
            /\ ret[p] = <<PerThreadFenceFailed>> <=>
                   (IsFence(LastRec(p)) /\ ~Ok(LastRec(p)))
            /\ ret[p] = <<HandleReleaseFailed>> <=>
                   (IsRelease(LastRec(p)) /\ ~Ok(LastRec(p)))
            /\ ret[p] = <<ListDeallocationFailed>> <=>
                   (LastRec(p).call = "vm_deallocate" /\ ~Ok(LastRec(p)))
            /\ ret[p] = <<ArchitectureUnsupported>> <=>
                   (AllOk(p) /\ LastRec(p).call # "vm_deallocate")
            /\ ret[p] = <<Success>> <=>
                   (AllOk(p) /\ LastRec(p).call = "vm_deallocate")

C17_Witness ==
    \E p \in ThreadIds :
        /\ ret[p] = <<PerThreadFenceFailed>>
        /\ i[p] = 2
        /\ Released(p, 0) /\ Released(p, 1)

\* C18: in an invocation that returns success every enumerated handle was
\* released exactly once, no port is queried after its release, the list
\* was deallocated exactly once, after the last release, and the kernel's
\* counts of handles and lists are what they were at call entry.
C18_SuccessReleasesEachHandleOnce ==
    \A p \in ThreadIds :
        ret[p] = <<Success>> =>
            /\ \A k \in Indices(p) :
                 Cardinality({j \in LogPos(p) :
                                 IsRelease(log[p][j]) /\ log[p][j].i = k}) = 1
            /\ Cardinality({j \in LogPos(p) : IsRelease(log[p][j])}) = thread_count[p]
            /\ \A j, m \in LogPos(p) :
                 (IsFence(log[p][j]) /\ IsRelease(log[p][m])
                    /\ log[p][j].port = log[p][m].port) => j < m
            /\ Cardinality({j \in LogPos(p) : log[p][j].call = "vm_deallocate"}) = 1
            /\ \A m \in LogPos(p) :
                 IsRelease(log[p][m]) => m < Len(log[p])
            /\ LastRec(p).call = "vm_deallocate"
            /\ urefs = urefs0[p]
            /\ vm_lists = lists0[p]

C18_Witness ==
    \E p \in ThreadIds :
        /\ ret[p] = <<Success>>
        /\ thread_count[p] >= 2
        /\ vm_lists = lists0[p]
        /\ lists0[p] > 0

\* C19: a failed invocation cleans up nothing more.  Aborting at index k
\* with -2 or -3: exactly the handles 0..k-1 were fenced and released, the
\* handles k..N-1 and the list stay held.  Aborting at k with -4: threads
\* 0..k were fenced, handles 0..k-1 released, handles k+1..N-1 and the list
\* stay held.  With -5 every thread was fenced and every handle released.
C19_FailedInvocationDoesNoCleanup ==
    \A p \in ThreadIds :
        /\ ret[p] \in {<<ArchitectureUnsupported>>, <<PerThreadFenceFailed>>} =>
            /\ i[p] \in Indices(p)
            /\ \A k \in Indices(p) : Fenced(p, k) <=> k < i[p]
            /\ \A k \in Indices(p) : Released(p, k) <=> k < i[p]
            /\ Held(p) = i[p] .. (thread_count[p] - 1)
            /\ ListHeld(p)
            /\ \A k \in Held(p) : urefs[thread_acts[p][k + 1]] >= 1
            /\ vm_lists >= 1
        /\ ret[p] = <<HandleReleaseFailed>> =>
            /\ i[p] \in Indices(p)
            /\ \A k \in Indices(p) : Fenced(p, k) <=> k <= i[p]
            /\ \A k \in Indices(p) : Released(p, k) <=> k < i[p]
            /\ (i[p] + 1) .. (thread_count[p] - 1) \subseteq Held(p)
            /\ ListHeld(p)
            /\ vm_lists >= 1
        /\ ret[p] = <<ListDeallocationFailed>> =>
            /\ \A k \in Indices(p) : Fenced(p, k) /\ Released(p, k)
            /\ Held(p) = {}

C19_Witness ==
    \E p \in ThreadIds :
        /\ ret[p] = <<HandleReleaseFailed>>
        /\ i[p] = 1
        /\ thread_count[p] = MaxThreads
        /\ urefs[thread_acts[p][MaxThreads]] >= 1
====
